---------------------------- MODULE Spec2Model ----------------------------
(***************************************************************************)
(* MicroPython driver for the Microchip MCP9808 temperature sensor.        *)
(*                                                                         *)
(* The device is a register file behind an I2C bus.  The bus modelled here *)
(* returns on a read the bytes last written to (or initially held by) the  *)
(* addressed register.  Temperatures are kept in units of 1/16 degree C,   *)
(* so that the driver's float results (integer + byte/16.0, exact in       *)
(* binary floating point) are integers in the model.                       *)
(***************************************************************************)
EXTENDS Integers, Sequences, FiniteSets, TLC

VARIABLES
    reg,        \* device register file: address -> sequence of bytes, MSB first
    obj,        \* the MCP9808 object: "none", "ok" (constructed), "failed"
    call,       \* the property access the caller made last: [op, arg]
    ret,        \* what that access returned or raised: [status, val]
    bus,        \* the bus transactions issued by the accesses in progress / last made
    pc,         \* per execution context: position inside a multi-transaction access
    buf,        \* per execution context: locals of the access in progress
    disturbed,  \* history: another party touched the register during the access(es) made
    lastset     \* history: per property, the value of its most recent successful set

vars == <<reg, obj, call, ret, bus, pc, buf, disturbed, lastset>>

---------------------------------------------------------------------------
(* Python integer operators on non-negative integers                       *)

RECURSIVE BitAnd(_, _)
BitAnd(a, b) ==
    IF a = 0 \/ b = 0 THEN 0
    ELSE (a % 2) * (b % 2) + 2 * BitAnd(a \div 2, b \div 2)

RECURSIVE BitOr(_, _)
BitOr(a, b) ==
    IF a = 0 THEN b
    ELSE IF b = 0 THEN a
    ELSE (IF a % 2 = 1 \/ b % 2 = 1 THEN 1 ELSE 0) + 2 * BitOr(a \div 2, b \div 2)

Shl(a, n) == a * (2 ^ n)

Shr(a, n) == a \div (2 ^ n)

abs(n) == IF n < 0 THEN 0 - n ELSE n

Byte == 0 .. 255

---------------------------------------------------------------------------
(* Register addresses and enumerated codes                                 *)

_CONFIG == 1
_UPPER_TEMP == 2
_LOWER_TEMP == 3
_CRITICAL_TEMP == 4
_TEMP == 5
_REG_WHOAMI == 7
_RESOLUTION == 8

Registers ==
    {_CONFIG, _UPPER_TEMP, _LOWER_TEMP, _CRITICAL_TEMP, _TEMP, _REG_WHOAMI, _RESOLUTION}

HYSTERESIS_0 == 0
HYSTERESIS_1_5 == 1
HYSTERESIS_3 == 2
HYSTERESIS_6 == 3
hysteresis_values == <<HYSTERESIS_0, HYSTERESIS_1_5, HYSTERESIS_3, HYSTERESIS_6>>

CONTINUOUS == 0
SHUTDOWN == 1
power_mode_values == <<CONTINUOUS, SHUTDOWN>>

RESOLUTION_0_5_C == 0
RESOLUTION_0_625_C == 1
RESOLUTION_0_125_C == 2
RESOLUTION_0_0625_C == 3
temperature_resolution_values ==
    <<RESOLUTION_0_5_C, RESOLUTION_0_625_C, RESOLUTION_0_125_C, RESOLUTION_0_0625_C>>

\* Python's `value in tuple`
In(value, tuple) == \E i \in 1 .. Len(tuple) : tuple[i] = value

hysteresis_names == <<"HYSTERESIS_0", "HYSTERESIS_1_5", "HYSTERESIS_3", "HYSTERESIS_6">>

power_mode_names == <<"CONTINUOUS", "SHUTDOWN">>

temperature_resolution_names ==
    <<"RESOLUTION_0_5_C", "RESOLUTION_0_625_C", "RESOLUTION_0_125_C", "RESOLUTION_0_0625_C">>

\* Python's tuple[i], zero-based
Item(tuple, i) == tuple[i + 1]

---------------------------------------------------------------------------
(* The bus primitive: a read of n bytes from a register, a write of bytes  *)

Read(address, n) == [op |-> "read", register |-> address, len |-> n]

Write(address, n) == [op |-> "write", register |-> address, len |-> n]

readfrom_mem(r, address, n) == SubSeq(r[address], 1, n)

writeto_mem(r, address, bytes) == [r EXCEPT ![address] = bytes]

---------------------------------------------------------------------------
(* Codec                                                                   *)

\* a decoder that forgets to clear the sign bit before scaling a negative reading
convert_temperature_sign_kept(temp) ==
    LET t0 == BitAnd(temp[1], 31)
    IN  IF BitAnd(t0, 16) = 16
        THEN ((t0 * 16) * 16 + temp[2]) - 256 * 16
        ELSE (t0 * 16) * 16 + temp[2]

\* a decoder that forgets to mask the alert flags off the first byte
convert_temperature_flags_kept(temp) ==
    LET t0 == temp[1]
    IN  IF BitAnd(t0, 16) = 16
        THEN ((BitAnd(t0, 15) * 16) * 16 + temp[2]) - 256 * 16
        ELSE (t0 * 16) * 16 + temp[2]

\* temp is the pair of bytes read; the result is in 1/16 degree C.
_convert_temperature(temp) ==
    LET t0 == BitAnd(temp[1], 31)
    IN  IF BitAnd(t0, 16) = 16
        THEN ((BitAnd(t0, 15) * 16) * 16 + temp[2]) - 256 * 16
        ELSE (t0 * 16) * 16 + temp[2]

\* The two bytes _limit_temperatures writes for the integer temp.
limit_bytes(temp) ==
    LET negative == temp < 0
        t == IF negative THEN abs(temp) ELSE temp
        high_byte == IF negative THEN BitOr(Shr(t, 4), 16) ELSE Shr(t, 4)
        low_byte == Shl(BitAnd(t, 15), 4)
    IN  <<high_byte, low_byte>>


\* What the limit getters' result is as a Python int (the decoded float is integral
\* whenever the low nibble of the second byte is 0, as in every encoded limit).
to_int(sixteenths) == IF sixteenths < 0 THEN 0 - ((0 - sixteenths) \div 16) ELSE sixteenths \div 16

---------------------------------------------------------------------------
(* Register access layer: RegisterStruct and CBits of i2c_helpers.         *)
(* Register bytes are one big-endian unsigned integer; a field is num_bits *)
(* bits starting start_bit bits above the least significant bit.           *)

RECURSIVE from_bytes(_)
from_bytes(bytes) ==
    IF bytes = <<>> THEN 0
    ELSE from_bytes(SubSeq(bytes, 1, Len(bytes) - 1)) * 256 + bytes[Len(bytes)]

RECURSIVE to_bytes(_, _)
to_bytes(value, length) ==
    IF length = 0 THEN <<>>
    ELSE Append(to_bytes(value \div 256, length - 1), value % 256)

\* CBits(num_bits, register_address, start_bit, register_width): a field descriptor
CBits(num_bits, register_address, start_bit, register_width) ==
    [num_bits |-> num_bits, register_address |-> register_address,
     start_bit |-> start_bit, register_width |-> register_width]

bit_mask(f) == Shl((2 ^ f.num_bits) - 1, f.start_bit)

\* the field's value inside the register bytes mem_value
field_of(f, mem_value) == Shr(BitAnd(from_bytes(mem_value), bit_mask(f)), f.start_bit)

\* the register bytes mem_value with the field replaced by value (masked to its width)
field_into(f, mem_value, value) ==
    LET cur == from_bytes(mem_value)
        cleared == cur - BitAnd(cur, bit_mask(f))
    IN  to_bytes(BitOr(cleared, BitAnd(Shl(value, f.start_bit), bit_mask(f))),
                 f.register_width)

\* readField: one read transaction
CBits_get(r, f) == field_of(f, readfrom_mem(r, f.register_address, f.register_width))

CBits_get_bus(f) == <<Read(f.register_address, f.register_width)>>

\* writeField: one read transaction, then one write transaction of the full register
CBits_set(r, f, value) ==
    writeto_mem(r, f.register_address,
        field_into(f, readfrom_mem(r, f.register_address, f.register_width), value))

CBits_set_bus(f) ==
    <<Read(f.register_address, f.register_width),
      Write(f.register_address, f.register_width)>>

\* RegisterStruct(register_address, "B"): a one-byte unsigned register
RegisterStruct_get(r, register_address) == readfrom_mem(r, register_address, 1)[1]

---------------------------------------------------------------------------
(* The class attributes of MCP9808                                         *)

_device_id == _REG_WHOAMI

\* the hysteresis field declared one bit too low, over the power-mode bit
hysteresis_at_bit_8 == CBits(2, _CONFIG, 8, 2)

_hysteresis == CBits(2, _CONFIG, 9, 2)

\* the power-mode bit declared one bit too high, inside the hysteresis field
power_mode_at_bit_9 == CBits(1, _CONFIG, 9, 2)

_power_mode == CBits(1, _CONFIG, 8, 2)

_temperature_resolution == CBits(2, _RESOLUTION, 0, 1)

\* the critical flag declared at the sign bit's position in the first byte
critical_alert_at_bit_4 == CBits(1, _TEMP, 4, 1)

critical_alert == CBits(1, _TEMP, 7, 1)

high_alert == CBits(1, _TEMP, 6, 1)

low_alert == CBits(1, _TEMP, 5, 1)

---------------------------------------------------------------------------
(* Caller-visible values                                                   *)

Ctx == {1, 2}

Idle == \A c \in Ctx : pc[c] = "idle"

Get(op) == [op |-> op, kind |-> "get", arg |-> <<>>]

Set(op, value) == [op |-> op, kind |-> "set", arg |-> <<value>>]

Return(v) == [status |-> "ok", val |-> <<v>>]

ReturnNone == [status |-> "ok", val |-> <<>>]

Raise(e) == [status |-> "raise", val |-> <<e>>]

\* a Python value handed to a limit setter: the int n, or the float sixteenths/16
IntArg(n) == [type |-> "int", v |-> n]

FloatArg(sixteenths) == [type |-> "float", v |-> sixteenths]

isinstance_int(value) == value.type = "int"

Properties ==
    {"hysteresis", "power_mode", "temperature_resolution",
     "temperature_upper", "temperature_lower", "temperature_critical"}

LimitProperties == {"temperature_upper", "temperature_lower", "temperature_critical"}

---------------------------------------------------------------------------
(* MCP9808.__init__                                                        *)

\* a constructor that skips the identity comparison
init_without_identity_check ==
    /\ obj = "none"
    /\ call' = [op |-> "__init__", kind |-> "init", arg |-> <<>>]
    /\ bus' = <<Read(_REG_WHOAMI, 1)>>
    /\ obj' = "ok" /\ ret' = ReturnNone
    /\ UNCHANGED <<reg, pc, buf, disturbed, lastset>>

__init__ ==
    /\ obj = "none"
    /\ call' = [op |-> "__init__", kind |-> "init", arg |-> <<>>]
    /\ bus' = <<Read(_REG_WHOAMI, 1)>>
    /\ IF RegisterStruct_get(reg, _device_id) # 4
       THEN obj' = "failed" /\ ret' = Raise("RuntimeError")
       ELSE obj' = "ok" /\ ret' = ReturnNone
    /\ UNCHANGED <<reg, pc, buf, disturbed, lastset>>

---------------------------------------------------------------------------
(* Enumerated settings                                                     *)

hysteresis(r) == Item(hysteresis_names, CBits_get(r, _hysteresis))

hysteresis_get ==
    /\ obj = "ok" /\ Idle
    /\ call' = Get("hysteresis")
    /\ ret' = Return(hysteresis(reg))
    /\ bus' = CBits_get_bus(_hysteresis)
    /\ UNCHANGED <<reg, obj, pc, buf, disturbed, lastset>>

\* a setter whose validation lets the code one past the table through
hysteresis_set_accepts_4(value) ==
    /\ obj = "ok" /\ Idle
    /\ call' = Set("hysteresis", value)
    /\ IF ~(In(value, hysteresis_values) \/ value = 4)
       THEN /\ ret' = Raise("ValueError")
            /\ bus' = <<>>
            /\ UNCHANGED <<reg, lastset>>
       ELSE /\ reg' = CBits_set(reg, _hysteresis, value)
            /\ bus' = CBits_set_bus(_hysteresis)
            /\ ret' = ReturnNone
            /\ lastset' = [lastset EXCEPT !["hysteresis"] = {value}]
    /\ UNCHANGED <<obj, pc, buf, disturbed>>

hysteresis_set(value) ==
    /\ obj = "ok" /\ Idle
    /\ call' = Set("hysteresis", value)
    /\ IF ~In(value, hysteresis_values)
       THEN /\ ret' = Raise("ValueError")
            /\ bus' = <<>>
            /\ UNCHANGED <<reg, lastset>>
       ELSE /\ reg' = CBits_set(reg, _hysteresis, value)
            /\ bus' = CBits_set_bus(_hysteresis)
            /\ ret' = ReturnNone
            /\ lastset' = [lastset EXCEPT !["hysteresis"] = {value}]
    /\ UNCHANGED <<obj, pc, buf, disturbed>>

power_mode(r) == Item(power_mode_names, CBits_get(r, _power_mode))

power_mode_get ==
    /\ obj = "ok" /\ Idle
    /\ call' = Get("power_mode")
    /\ ret' = Return(power_mode(reg))
    /\ bus' = CBits_get_bus(_power_mode)
    /\ UNCHANGED <<reg, obj, pc, buf, disturbed, lastset>>

power_mode_set(value) ==
    /\ obj = "ok" /\ Idle
    /\ call' = Set("power_mode", value)
    /\ IF ~In(value, power_mode_values)
       THEN /\ ret' = Raise("ValueError")
            /\ bus' = <<>>
            /\ UNCHANGED <<reg, lastset>>
       ELSE /\ reg' = CBits_set(reg, _power_mode, value)
            /\ bus' = CBits_set_bus(_power_mode)
            /\ ret' = ReturnNone
            /\ lastset' = [lastset EXCEPT !["power_mode"] = {value}]
    /\ UNCHANGED <<obj, pc, buf, disturbed>>

temperature_resolution(r) ==
    Item(temperature_resolution_names, CBits_get(r, _temperature_resolution))

temperature_resolution_get ==
    /\ obj = "ok" /\ Idle
    /\ call' = Get("temperature_resolution")
    /\ ret' = Return(temperature_resolution(reg))
    /\ bus' = CBits_get_bus(_temperature_resolution)
    /\ UNCHANGED <<reg, obj, pc, buf, disturbed, lastset>>

temperature_resolution_set(value) ==
    /\ obj = "ok" /\ Idle
    /\ call' = Set("temperature_resolution", value)
    /\ IF ~In(value, temperature_resolution_values)
       THEN /\ ret' = Raise("ValueError")
            /\ bus' = <<>>
            /\ UNCHANGED <<reg, lastset>>
       ELSE /\ reg' = CBits_set(reg, _temperature_resolution, value)
            /\ bus' = CBits_set_bus(_temperature_resolution)
            /\ ret' = ReturnNone
            /\ lastset' = [lastset EXCEPT !["temperature_resolution"] = {value}]
    /\ UNCHANGED <<obj, pc, buf, disturbed>>

---------------------------------------------------------------------------
(* Temperature and the three limits                                        *)

temperature(r) == _convert_temperature(readfrom_mem(r, _TEMP, 2))

temperature_get ==
    /\ obj = "ok" /\ Idle
    /\ call' = Get("temperature")
    /\ ret' = Return(temperature(reg))
    /\ bus' = <<Read(_TEMP, 2)>>
    /\ UNCHANGED <<reg, obj, pc, buf, disturbed, lastset>>

_get_temperature(r, register_address) ==
    _convert_temperature(readfrom_mem(r, register_address, 2))

_limit_temperatures(r, temp, register_address) ==
    writeto_mem(r, register_address, limit_bytes(temp))

temperature_upper_get ==
    /\ obj = "ok" /\ Idle
    /\ call' = Get("temperature_upper")
    /\ ret' = Return(_get_temperature(reg, _UPPER_TEMP))
    /\ bus' = <<Read(_UPPER_TEMP, 2)>>
    /\ UNCHANGED <<reg, obj, pc, buf, disturbed, lastset>>

temperature_upper_set(value) ==
    /\ obj = "ok" /\ Idle
    /\ call' = Set("temperature_upper", value)
    /\ IF ~isinstance_int(value)
       THEN /\ ret' = Raise("ValueError")
            /\ bus' = <<>>
            /\ UNCHANGED <<reg, lastset>>
       ELSE /\ reg' = _limit_temperatures(reg, value.v, _UPPER_TEMP)
            /\ bus' = <<Write(_UPPER_TEMP, 2)>>
            /\ ret' = ReturnNone
            /\ lastset' = [lastset EXCEPT !["temperature_upper"] = {value.v}]
    /\ UNCHANGED <<obj, pc, buf, disturbed>>

temperature_lower_get ==
    /\ obj = "ok" /\ Idle
    /\ call' = Get("temperature_lower")
    /\ ret' = Return(_get_temperature(reg, _LOWER_TEMP))
    /\ bus' = <<Read(_LOWER_TEMP, 2)>>
    /\ UNCHANGED <<reg, obj, pc, buf, disturbed, lastset>>

temperature_lower_set(value) ==
    /\ obj = "ok" /\ Idle
    /\ call' = Set("temperature_lower", value)
    /\ IF ~isinstance_int(value)
       THEN /\ ret' = Raise("ValueError")
            /\ bus' = <<>>
            /\ UNCHANGED <<reg, lastset>>
       ELSE /\ reg' = _limit_temperatures(reg, value.v, _LOWER_TEMP)
            /\ bus' = <<Write(_LOWER_TEMP, 2)>>
            /\ ret' = ReturnNone
            /\ lastset' = [lastset EXCEPT !["temperature_lower"] = {value.v}]
    /\ UNCHANGED <<obj, pc, buf, disturbed>>

temperature_critical_get ==
    /\ obj = "ok" /\ Idle
    /\ call' = Get("temperature_critical")
    /\ ret' = Return(_get_temperature(reg, _CRITICAL_TEMP))
    /\ bus' = <<Read(_CRITICAL_TEMP, 2)>>
    /\ UNCHANGED <<reg, obj, pc, buf, disturbed, lastset>>

temperature_critical_set(value) ==
    /\ obj = "ok" /\ Idle
    /\ call' = Set("temperature_critical", value)
    /\ IF ~isinstance_int(value)
       THEN /\ ret' = Raise("ValueError")
            /\ bus' = <<>>
            /\ UNCHANGED <<reg, lastset>>
       ELSE /\ reg' = _limit_temperatures(reg, value.v, _CRITICAL_TEMP)
            /\ bus' = <<Write(_CRITICAL_TEMP, 2)>>
            /\ ret' = ReturnNone
            /\ lastset' = [lastset EXCEPT !["temperature_critical"] = {value.v}]
    /\ UNCHANGED <<obj, pc, buf, disturbed>>

---------------------------------------------------------------------------
(* The device as the driver finds it, and the whole life of one object     *)

PowerOn ==
    [a \in Registers |->
        CASE a = _REG_WHOAMI -> <<4>>
          [] a = _RESOLUTION -> <<3>>
          [] a = _TEMP -> <<1, 148>>
          [] OTHER -> <<0, 0>>]

NeverSet == [p \in Properties |-> {}]

NoCall == [op |-> "", kind |-> "", arg |-> <<>>]

NoRet == [status |-> "none", val |-> <<>>]

\* arguments the caller hands to the enumerated setters and to the limit setters
EnumArgs == (0 - 1) .. 4

LimitArgs == {IntArg(21), FloatArg(344)}

Init ==
    /\ \E id \in Byte : reg = [PowerOn EXCEPT ![_REG_WHOAMI] = <<id>>]
    /\ obj = "none"
    /\ call = NoCall
    /\ ret = NoRet
    /\ bus = <<>>
    /\ pc = [c \in Ctx |-> "idle"]
    /\ buf = [c \in Ctx |-> <<>>]
    /\ disturbed = FALSE
    /\ lastset = NeverSet

Next ==
    \/ __init__
    \/ hysteresis_get
    \/ \E v \in EnumArgs : hysteresis_set(v)
    \/ power_mode_get
    \/ \E v \in EnumArgs : power_mode_set(v)
    \/ temperature_resolution_get
    \/ \E v \in EnumArgs : temperature_resolution_set(v)
    \/ temperature_get
    \/ temperature_upper_get
    \/ \E v \in LimitArgs : temperature_upper_set(v)
    \/ temperature_lower_get
    \/ \E v \in LimitArgs : temperature_lower_set(v)
    \/ temperature_critical_get
    \/ \E v \in LimitArgs : temperature_critical_set(v)

Spec == Init /\ [][Next]_vars

---------------------------------------------------------------------------
(* Properties of one object's life (Spec)                                  *)

\* the last access was a set with an argument outside the setter's domain
InvalidSet ==
    /\ call.kind = "set"
    /\ \/ call.op = "hysteresis" /\ call.arg[1] \notin 0 .. 3
       \/ call.op = "power_mode" /\ call.arg[1] \notin 0 .. 1
       \/ call.op = "temperature_resolution" /\ call.arg[1] \notin 0 .. 3
       \/ call.op \in LimitProperties /\ call.arg[1].type # "int"

\* C4: a set with an argument outside the setter's domain (hysteresis and resolution
\* outside 0..3, power mode outside 0..1, a limit that is not an int) raises, issues
\* no bus transaction at all, and leaves every register as it was.
C4_InvalidSetHasNoEffect ==
    /\ [](InvalidSet => ret.status = "raise" /\ bus = <<>>)
    /\ [][InvalidSet' => reg' = reg]_vars

\* C4 witness: hysteresis was set to 2, then a set to 4 failed, and the field still reads 2
C4_Witness ==
    /\ call = Set("hysteresis", 4)
    /\ ret.status = "raise"
    /\ lastset["hysteresis"] = {2}
    /\ hysteresis(reg) = "HYSTERESIS_3"

\* C5: construction succeeds exactly when the byte in the identity register 0x07 is
\* 0x04 and fails with an error for every other byte; either way it issues the one
\* identity read, and no register is written.
C5_ConstructionChecksIdentity ==
    /\ [](obj = "ok" => reg[7] = <<4>>)
    /\ [](obj = "failed" => reg[7] # <<4>> /\ ret.status = "raise")
    /\ [](call.op = "__init__" =>
            /\ obj # "none"
            /\ bus = <<[op |-> "read", register |-> 7, len |-> 1]>>)
    /\ [][obj = "none" => reg' = reg]_vars

\* C5 witness: construction against identity byte 0x05 has failed
C5_Witness == obj = "failed" /\ reg[7] = <<5>> /\ call.op = "__init__"

\* C7: for hysteresis (codes 0..3), power mode (0..1) and resolution (0..3), a get
\* returns the name at the position of the code most recently set, and within each
\* name table distinct codes have distinct names.
C7_EnumGetInvertsSet ==
    /\ call = Get("hysteresis") =>
          \A c \in lastset["hysteresis"] :
              c \in 0 .. 3 /\ ret = Return(hysteresis_names[c + 1])
    /\ call = Get("power_mode") =>
          \A c \in lastset["power_mode"] :
              c \in 0 .. 1 /\ ret = Return(power_mode_names[c + 1])
    /\ call = Get("temperature_resolution") =>
          \A c \in lastset["temperature_resolution"] :
              c \in 0 .. 3 /\ ret = Return(temperature_resolution_names[c + 1])
    /\ \A c, d \in 1 .. 4 : c # d => hysteresis_names[c] # hysteresis_names[d]
    /\ \A c, d \in 1 .. 2 : c # d => power_mode_names[c] # power_mode_names[d]
    /\ \A c, d \in 1 .. 4 :
          c # d => temperature_resolution_names[c] # temperature_resolution_names[d]
    /\ Len(hysteresis_names) = 4 /\ Len(power_mode_names) = 2
    /\ Len(temperature_resolution_names) = 4

\* C7 witness: resolution was set to 2 after other settings were made, and the get
\* returns the third name of the table
C7_Witness ==
    /\ call = Get("temperature_resolution")
    /\ lastset["temperature_resolution"] = {2}
    /\ lastset["hysteresis"] = {3}
    /\ ret = Return("RESOLUTION_0_125_C")

---------------------------------------------------------------------------
(* Reading the temperature register, for every content of it (SpecTemp)    *)

\* a constructed object on a device whose registers hold r
Constructed(r) ==
    /\ reg = r
    /\ obj = "ok"
    /\ call = NoCall
    /\ ret = NoRet
    /\ bus = <<>>
    /\ pc = [c \in Ctx |-> "idle"]
    /\ buf = [c \in Ctx |-> <<>>]
    /\ disturbed = FALSE
    /\ lastset = NeverSet

InitTemp == \E b0, b1 \in Byte : Constructed([PowerOn EXCEPT ![_TEMP] = <<b0, b1>>])

NextTemp == temperature_get

SpecTemp == InitTemp /\ [][NextTemp]_vars

\* C1: with r the low 13 bits of the big-endian TEMPERATURE register, the temperature
\* getter returns, in 1/16 degree C, r & 0xFFF (= 16*(r>>4) + (r&0xF), never negative)
\* when bit 12 of r is 0, and (r & 0xFFF) - 4096 (in [-4096, 0), i.e. [-256, 0) degrees)
\* when bit 12 is 1; the result is the same whatever the flag bits 15:13 are.
C1_TemperatureDecode ==
    call = Get("temperature") =>
        LET raw == reg[5][1] * 256 + reg[5][2]
            r == raw % 8192
            low12 == r % 4096
        IN  /\ ret.status = "ok"
            /\ r \div 4096 = 0 =>
                  /\ ret.val[1] = low12
                  /\ ret.val[1] = 16 * (r \div 16) + (r % 16)
                  /\ ret.val[1] >= 0
            /\ r \div 4096 = 1 =>
                  /\ ret.val[1] = low12 - 4096
                  /\ ret.val[1] = 16 * (low12 \div 16) + (low12 % 16) - 256 * 16
                  /\ ret.val[1] >= -4096
                  /\ ret.val[1] < 0
            /\ \A flags \in 0 .. 7 :
                  temperature([reg EXCEPT ![5] = <<flags * 32 + (reg[5][1] % 32), reg[5][2]>>])
                      = ret.val[1]

\* C1 witness: all three flags set and a negative reading, -1/16 degree C
C1_Witness == call = Get("temperature") /\ reg[5] = <<255, 255>> /\ ret = Return(-1)

\* C6 as stated: register bytes 0x1E 0xD4 decode to -19.75 degrees C (-316 sixteenths)
C6_Original ==
    call = Get("temperature") /\ reg[5] = <<30, 212>> => ret = Return(-316)

\* C6 amended: register bytes 0x1E 0xD4 decode to -18.75 degrees C (-300 sixteenths)
C6_Amended ==
    call = Get("temperature") /\ reg[5] = <<30, 212>> => ret = Return(-300)

\* C6 witness: the temperature was read while the register held 0x1E 0xD4
C6_Witness == call = Get("temperature") /\ reg[5] = <<30, 212>> /\ ret.status = "ok"

---------------------------------------------------------------------------
(* Setting and reading back a limit, for every integer of [-128, 127]      *)
(* (SpecLimit).  For these values bytes([high_byte, low_byte]) never       *)
(* raises: both bytes are below 256.                                       *)

LimitDomain == (0 - 128) .. 127

\* how many of the three limits the caller assigns in one run
MaxLimitsSet == 1

MaySet(op) ==
    \/ lastset[op] # {}
    \/ Cardinality({o \in LimitProperties : lastset[o] # {}}) < MaxLimitsSet

InitLimit == Constructed(PowerOn)

NextLimit ==
    \/ temperature_upper_get
    \/ \E t \in LimitDomain :
          MaySet("temperature_upper") /\ temperature_upper_set(IntArg(t))
    \/ temperature_lower_get
    \/ \E t \in LimitDomain :
          MaySet("temperature_lower") /\ temperature_lower_set(IntArg(t))
    \/ temperature_critical_get
    \/ \E t \in LimitDomain :
          MaySet("temperature_critical") /\ temperature_critical_set(IntArg(t))

SpecLimit == InitLimit /\ [][NextLimit]_vars

LimitRegister(op) ==
    CASE op = "temperature_upper" -> _UPPER_TEMP
      [] op = "temperature_lower" -> _LOWER_TEMP
      [] op = "temperature_critical" -> _CRITICAL_TEMP

\* C2: for each of the three limits and every integer t of [-128, 127], a get of the
\* limit after it was set to t returns exactly t (16*t sixteenths of a degree).
C2_LimitGetReturnsSet ==
    \A op \in LimitProperties :
        call = Get(op) => \A t \in lastset[op] : ret = Return(16 * t)

\* C3: for every integer t of [-128, 127], the two bytes a limit set wrote, decoded to
\* an integer and encoded again, are the same two bytes.
C3_EncodeDecodeEncode ==
    \A op \in LimitProperties :
        call.kind = "set" /\ call.op = op /\ ret.status = "ok" =>
            LET written == reg[LimitRegister(op)]
            IN  limit_bytes(to_int(_convert_temperature(written))) = written

---------------------------------------------------------------------------
(* The two fields of CONFIG, from prior contents of it (SpecConfig): every  *)
(* first byte, which holds both fields, and second bytes that have every   *)
(* bit at 0 and at 1.                                                      *)

ConfigLowBytes == {0, 85, 170, 255}

InitConfig ==
    \E b0 \in Byte, b1 \in ConfigLowBytes :
        Constructed([PowerOn EXCEPT ![_CONFIG] = <<b0, b1>>])

NextConfig ==
    \/ hysteresis_get
    \/ \E v \in EnumArgs : hysteresis_set(v)
    \/ power_mode_get
    \/ \E v \in EnumArgs : power_mode_set(v)

SpecConfig == InitConfig /\ [][NextConfig]_vars

\* the 16-bit big-endian content of CONFIG in register file r
ConfigWord(r) == r[1][1] * 256 + r[1][2]

\* C9: a successful set of hysteresis to c leaves bits 0..8 and 11..15 of CONFIG and
\* every other register as they were and makes bits 9..10 equal c; a successful set
\* of power mode to c leaves bits 0..7 and 9..15 and every other register as they
\* were and makes bit 8 equal c; so each getter returns the name of the code most
\* recently set for its own field, whatever was set for the other since.
C9_ConfigFieldsAreIndependent ==
    /\ [][call'.kind = "set" /\ call'.op = "hysteresis" /\ ret'.status = "ok" =>
            /\ \A a \in DOMAIN reg : a # 1 => reg'[a] = reg[a]
            /\ ConfigWord(reg') % 512 = ConfigWord(reg) % 512
            /\ ConfigWord(reg') \div 2048 = ConfigWord(reg) \div 2048
            /\ (ConfigWord(reg') \div 512) % 4 = call'.arg[1]]_vars
    /\ [][call'.kind = "set" /\ call'.op = "power_mode" /\ ret'.status = "ok" =>
            /\ \A a \in DOMAIN reg : a # 1 => reg'[a] = reg[a]
            /\ ConfigWord(reg') % 256 = ConfigWord(reg) % 256
            /\ ConfigWord(reg') \div 512 = ConfigWord(reg) \div 512
            /\ (ConfigWord(reg') \div 256) % 2 = call'.arg[1]]_vars
    /\ [](call = Get("hysteresis") =>
            \A c \in lastset["hysteresis"] : ret = Return(hysteresis_names[c + 1]))
    /\ [](call = Get("power_mode") =>
            \A c \in lastset["power_mode"] : ret = Return(power_mode_names[c + 1]))

\* C9 witness: from CONFIG = 0xFFFF, hysteresis was set to 1 and power mode to 1, and
\* the hysteresis getter returns the name of code 1 with all other bits still set
C9_Witness ==
    /\ call = Get("hysteresis")
    /\ lastset["hysteresis"] = {1}
    /\ lastset["power_mode"] = {1}
    /\ reg[1] = <<251, 255>>
    /\ ret = Return("HYSTERESIS_1_5")

---------------------------------------------------------------------------
(* alert_status: three field reads, in the order the keyword arguments are *)
(* evaluated, while the device may rewrite its flags (SpecAlert)           *)

alert_status_high ==
    /\ obj = "ok" /\ Idle
    /\ call' = Get("alert_status")
    /\ ret' = NoRet
    /\ buf' = [buf EXCEPT ![1] = <<CBits_get(reg, high_alert)>>]
    /\ bus' = CBits_get_bus(high_alert)
    /\ pc' = [pc EXCEPT ![1] = "low_alert"]
    /\ disturbed' = FALSE
    /\ UNCHANGED <<reg, obj, lastset>>

alert_status_low ==
    /\ pc[1] = "low_alert"
    /\ buf' = [buf EXCEPT ![1] = Append(buf[1], CBits_get(reg, low_alert))]
    /\ bus' = bus \o CBits_get_bus(low_alert)
    /\ pc' = [pc EXCEPT ![1] = "critical_alert"]
    /\ UNCHANGED <<reg, obj, call, ret, disturbed, lastset>>

alert_status_critical ==
    /\ pc[1] = "critical_alert"
    /\ ret' = Return([high_alert |-> buf[1][1],
                      low_alert |-> buf[1][2],
                      critical_alert |-> CBits_get(reg, critical_alert)])
    /\ bus' = bus \o CBits_get_bus(critical_alert)
    /\ buf' = [buf EXCEPT ![1] = <<>>]
    /\ pc' = [pc EXCEPT ![1] = "idle"]
    /\ UNCHANGED <<reg, obj, call, disturbed, lastset>>

\* the device rewrites the three flag bits of the TEMPERATURE register
sensor_update(flags) ==
    /\ obj = "ok"
    /\ reg' = [reg EXCEPT ![_TEMP] = <<flags * 32 + (reg[_TEMP][1] % 32), reg[_TEMP][2]>>]
    /\ reg' # reg
    /\ disturbed' = TRUE
    /\ UNCHANGED <<obj, call, ret, bus, pc, buf, lastset>>

\* second bytes of TEMPERATURE tried; the flag reads are one byte long and never see it
AlertLowBytes == {0, 212}

InitAlert ==
    \E b0 \in Byte, b1 \in AlertLowBytes :
        Constructed([PowerOn EXCEPT ![_TEMP] = <<b0, b1>>])

NextAlert ==
    \/ alert_status_high
    \/ alert_status_low
    \/ alert_status_critical
    \/ \E flags \in 0 .. 7 : sensor_update(flags)

SpecAlert == InitAlert /\ [][NextAlert]_vars

\* C8: when the TEMPERATURE register did not change since the call began, a finished
\* alert_status holds critical_alert = bit 15, high_alert = bit 14 and low_alert =
\* bit 13 of the 16-bit register, whatever the other 13 bits; the call made exactly
\* three reads of one byte at 0x05 and no write.
C8_AlertStatusReadsFlags ==
    /\ call = Get("alert_status") /\ pc[1] = "idle" /\ ~disturbed =>
          LET w == reg[5][1] * 256 + reg[5][2]
              one_byte_read == [op |-> "read", register |-> 5, len |-> 1]
          IN  /\ ret.status = "ok"
              /\ ret.val[1].critical_alert = (w \div 32768) % 2
              /\ ret.val[1].high_alert = (w \div 16384) % 2
              /\ ret.val[1].low_alert = (w \div 8192) % 2
              /\ bus = <<one_byte_read, one_byte_read, one_byte_read>>
    /\ \A i \in 1 .. Len(bus) : bus[i].op = "read"

\* C8 witness: an undisturbed call on first byte 0xBE returned critical and low set,
\* high clear
C8_Witness ==
    /\ call = Get("alert_status") /\ pc[1] = "idle" /\ ~disturbed
    /\ reg[5][1] = 190
    /\ ret = Return([high_alert |-> 0, low_alert |-> 1, critical_alert |-> 1])

---------------------------------------------------------------------------
(* Two execution contexts, no mutual exclusion: context 1 sets hysteresis, *)
(* context 2 sets power mode, each as a read transaction followed by a     *)
(* write transaction (SpecConc)                                            *)

\* the setter up to and including the read half of the field write
field_set_read(c, op, f, value) ==
    /\ obj = "ok"
    /\ pc[c] = "idle"
    /\ buf' = [buf EXCEPT ![c] =
                  [op |-> op, field |-> f, value |-> value,
                   mem_value |-> readfrom_mem(reg, f.register_address, f.register_width)]]
    /\ bus' = Append(bus, Read(f.register_address, f.register_width))
    /\ pc' = [pc EXCEPT ![c] = "write"]
    /\ disturbed' = (disturbed \/ \E o \in Ctx \ {c} : pc[o] = "write")
    /\ UNCHANGED <<reg, obj, call, ret, lastset>>

\* the write half: the register as read earlier, with the field replaced
field_set_write(c) ==
    /\ pc[c] = "write"
    /\ reg' = writeto_mem(reg, buf[c].field.register_address,
                  field_into(buf[c].field, buf[c].mem_value, buf[c].value))
    /\ bus' = Append(bus, Write(buf[c].field.register_address, buf[c].field.register_width))
    /\ pc' = [pc EXCEPT ![c] = "done"]
    /\ lastset' = [lastset EXCEPT ![buf[c].op] = {buf[c].value}]
    /\ UNCHANGED <<obj, call, ret, buf, disturbed>>

\* the setter's validation failed: ValueError, nothing read or written
setter_raises(c) ==
    /\ obj = "ok"
    /\ pc[c] = "idle"
    /\ pc' = [pc EXCEPT ![c] = "raised"]
    /\ UNCHANGED <<reg, obj, call, ret, bus, buf, disturbed, lastset>>

hysteresis_set_read(c, value) ==
    IF ~In(value, hysteresis_values)
    THEN setter_raises(c)
    ELSE field_set_read(c, "hysteresis", _hysteresis, value)

power_mode_set_read(c, value) ==
    IF ~In(value, power_mode_values)
    THEN setter_raises(c)
    ELSE field_set_read(c, "power_mode", _power_mode, value)

\* prior contents of CONFIG tried: every value of the three field bits, other bits 0 or 1
ConcHighBytes == {0, 1, 2, 3, 4, 5, 6, 7, 248, 255}

ConcLowBytes == {0, 255}

InitConc ==
    \E b0 \in ConcHighBytes, b1 \in ConcLowBytes :
        Constructed([PowerOn EXCEPT ![_CONFIG] = <<b0, b1>>])

NextConc ==
    \/ \E v \in EnumArgs : hysteresis_set_read(1, v)
    \/ \E v \in EnumArgs : power_mode_set_read(2, v)
    \/ \E c \in Ctx : field_set_write(c)

SpecConc == InitConc /\ [][NextConc]_vars

BothDone == pc[1] = "done" /\ pc[2] = "done"

\* C10: with both sets finished, if they ran one after the other CONFIG holds both
\* new values; if the read half of one fell between the read and the write half of
\* the other, CONFIG holds the new value of one field and the value the other field
\* had before both sets, i.e. one update is lost. Each set made one read and one write.
C10_LostUpdateOnlyWhenInterleaved ==
    BothDone =>
        LET w == ConfigWord(reg)
            old == buf[1].mem_value[1] * 256 + buf[1].mem_value[2]
        IN  /\ ~disturbed =>
                  /\ (w \div 512) % 4 = buf[1].value
                  /\ (w \div 256) % 2 = buf[2].value
            /\ disturbed =>
                  /\ buf[1].mem_value = buf[2].mem_value
                  /\ \/ /\ (w \div 512) % 4 = (old \div 512) % 4
                        /\ (w \div 256) % 2 = buf[2].value
                     \/ /\ (w \div 256) % 2 = (old \div 256) % 2
                        /\ (w \div 512) % 4 = buf[1].value
            /\ Len(bus) = 4
            /\ Cardinality({i \in 1 .. 4 : bus[i].op = "read"}) = 2

\* C10 witness: both sets finished, their halves interleaved, and the hysteresis
\* field does not hold the value context 1 set
C10_Witness ==
    /\ BothDone /\ disturbed
    /\ (ConfigWord(reg) \div 512) % 4 # buf[1].value
    /\ (ConfigWord(reg) \div 256) % 2 = buf[2].value

===========================================================================
